---- MODULE Spec2Model ----
(***************************************************************************)
(* Model of the message dispatch orchestration layer, QueueService         *)
(* (src/app/src/services/queueSvc.js): enqueue, sendMessage,               *)
(* updateStatus, updateContent and removeJob, running against a Job Queue, *)
(* a Data Store and a Mail Transport.  Every await of the code is a step   *)
(* boundary, so other calls may interleave where the code suspends.        *)
(***************************************************************************)
EXTENDS Integers, FiniteSets, Sequences, TLC

\* ---------------------------------------------------------------- bounds
\* enqueue calls, removeJob calls and retries of a job in one behaviour
MaxCalls == 3

\* ------------------------------------------------------------- universes
Clients == {"acme", "other"}
Ids == {"m1", "m2"}
EnqIds == {"m1"}                     \* the messageId producers submit
Producers == {"acme"}                \* the client that submits messages
None == "none"                       \* JavaScript null / undefined

\* Message.status values (queueState of components/state)
ENQUEUED == "enqueued"
COMPLETED == "completed"
FAILED == "failed"
REMOVED == "removed"

Keys == Clients \X Ids
Gens == 1..(MaxCalls + 1)

NoResult == [smtpMsgId |-> None, response |-> None]
NoSmtp == [messageId |-> None, response |-> None]
\* what the Mail Transport can answer
SmtpResults == {[messageId |-> "abc", response |-> "250 OK"]}

NoData == [client |-> None, messageId |-> None]
NoJob == [present |-> FALSE, data |-> NoData, state |-> None, gen |-> 0,
          origin |-> None]

\* outcomes of a call to a collaborator: TRUE it succeeds, FALSE it fails
Outcomes == BOOLEAN
NoFault == {TRUE}
Fault == {FALSE}

VARIABLES
  db,        \* Data Store: (client, messageId) -> message record
  queue,     \* Job Queue: job id -> job
  nextGen,   \* number of the next job the Queue accepts
  enq,       \* the enqueue call in progress
  con,       \* the consumer running sendMessage
  rm,        \* the removeJob call in progress
  bg,        \* removeJob's un-awaited writes still to run
  mailed,    \* job number -> times the Mail Transport was invoked for it
  removedOk, \* job numbers for which removeJob returned true
  calls,     \* enqueue calls, removeJob calls and retries so far
  sent,      \* (client, messageId) -> times its body went to the Mail Transport
  contentOut \* how the last updateContent call ended

vars == <<db, queue, nextGen, enq, con, rm, bg, mailed, removedOk, calls,
          sent, contentOut>>

\* ------------------------------------------------------------ Data Store
\* dataService.updateStatus(client, messageId, status, description)
DsUpdateStatus(d, c, m, status, description) ==
  [d EXCEPT ![<<c, m>>].status = status,
            ![<<c, m>>].statusDescription = description]

\* dataService.updateMessageSendResult(client, messageId, sendResult)
DsUpdateMessageSendResult(d, c, m, sendResult) ==
  [d EXCEPT ![<<c, m>>].sendResult = sendResult,
            ![<<c, m>>].status = COMPLETED]

\* dataService.deleteMessageEmail(client, messageId)
DsDeleteMessageEmail(d, c, m) == [d EXCEPT ![<<c, m>>].email = None]

\* dataService.readMessage(client, messageId)
DsReadMessage(d, c, m) == d[<<c, m>>]

\* ----------------------------------------------------------------- Queue
\* queue.getJob(jobId): the job, or NoJob
QGetJob(q, jobId) == q[jobId]

\* queue.add(payload, opts): idempotent on a jobId the Queue already holds
QAdd(q, jobId, payload, delayed, gen) ==
  IF q[jobId].present THEN q
  ELSE [q EXCEPT ![jobId] =
          [present |-> TRUE, data |-> payload,
           state |-> IF delayed THEN "delayed" ELSE "waiting",
           gen |-> gen, origin |-> "enqueue"]]

\* job.getState(): a job the Queue no longer holds is in none of the states
QGetState(q, jobId, gen) ==
  IF q[jobId].present /\ q[jobId].gen = gen THEN q[jobId].state ELSE "stuck"

\* job.remove()
QRemove(q, jobId, gen) ==
  IF q[jobId].present /\ q[jobId].gen = gen
  THEN [q EXCEPT ![jobId] = NoJob] ELSE q

\* job.update(payload): acts on the job the handle was made for
QUpdate(q, jobId, gen, payload) ==
  IF q[jobId].present /\ q[jobId].gen = gen
  THEN [q EXCEPT ![jobId].data = payload] ELSE q

\* the Queue closes an active job when its handler ends: "completed" when it
\* returned, "failed" when it threw
QFinish(q, jobId, gen, result) ==
  IF q[jobId].present /\ q[jobId].gen = gen /\ q[jobId].state = "active"
  THEN [q EXCEPT ![jobId].state =
          IF result = "returned" THEN "completed" ELSE "failed"]
  ELSE q

\* ------------------------------------------------------------- the guards
\* job && job.data && job.data.messageId && job.data.client
HasIds(job) ==
  job.present /\ job.data.messageId # None /\ job.data.client # None

IdleEnq == [pc |-> "idle", client |-> None, id |-> None, delayed |-> FALSE,
            result |-> None]
IdleCon == [pc |-> "idle", id |-> None, gen |-> 0, origin |-> None,
            data |-> NoData, email |-> None, smtp |-> NoSmtp]
IdleRm == [pc |-> "idle", client |-> None, jobId |-> None, data |-> NoData,
           gen |-> 0, result |-> None, queried |-> FALSE]

\* a job another party left in the Queue, its data.messageId not its id or
\* its data lacking the client or the messageId
Fixture(c, m, st) ==
  [present |-> TRUE, data |-> [client |-> c, messageId |-> m], state |-> st,
   gen |-> 1, origin |-> "fixture"]

Init ==
  /\ db = [k \in Keys |-> [status |-> None, statusDescription |-> None,
                           email |-> "hello", sendResult |-> NoResult]]
  /\ \/ /\ queue = [i \in Ids |-> NoJob]
        /\ nextGen = 1
     \/ \E id \in EnqIds, c \in Clients \cup {None}, m \in Ids \cup {None},
           st \in {"delayed", "waiting"} :
          /\ c # None => m # id
          /\ c = None => m # None
          /\ queue = [i \in Ids |-> IF i = id THEN Fixture(c, m, st) ELSE NoJob]
          /\ nextGen = 2
  /\ enq = IdleEnq
  /\ con = IdleCon
  /\ rm = IdleRm
  /\ bg = {}
  /\ mailed = [g \in Gens |-> 0]
  /\ removedOk = {}
  /\ calls = 0
  /\ sent = [k \in Keys |-> 0]
  /\ contentOut = None

\* ---------------------------------------------------------------- enqueue
\* enqueue as it would be if a failed status write were caught and logged
EnqueueWriteIgnoresFailure(c, m, delayed, F) ==
  /\ enq.pc = "idle"
  /\ calls < MaxCalls
  /\ calls' = calls + 1
  /\ \E ok \in F :
       /\ db' = IF ok THEN DsUpdateStatus(db, c, m, ENQUEUED, None) ELSE db
       /\ enq' = [IdleEnq EXCEPT !.pc = "add", !.client = c, !.id = m,
                                 !.delayed = delayed]
  /\ UNCHANGED <<queue, nextGen, con, rm, bg, mailed, removedOk,
                 sent, contentOut>>

\* enqueue as it would be if the status were not written before the job is
\* added
EnqueueWriteSkipsStatus(c, m, delayed, F) ==
  /\ enq.pc = "idle"
  /\ calls < MaxCalls
  /\ calls' = calls + 1
  /\ \E ok \in F :
       /\ db' = db
       /\ enq' = IF ok
                 THEN [IdleEnq EXCEPT !.pc = "add", !.client = c, !.id = m,
                                      !.delayed = delayed]
                 ELSE [IdleEnq EXCEPT !.result = "threw"]
  /\ UNCHANGED <<queue, nextGen, con, rm, bg, mailed, removedOk,
                 sent, contentOut>>

\* enqueue, up to the end of `await dataService.updateStatus(.., ENQUEUED)`
EnqueueWrite(c, m, delayed, F) ==
  /\ enq.pc = "idle"
  /\ calls < MaxCalls
  /\ calls' = calls + 1
  /\ \E ok \in F :
       IF ok
       THEN /\ db' = DsUpdateStatus(db, c, m, ENQUEUED, None)
            /\ enq' = [IdleEnq EXCEPT !.pc = "add", !.client = c, !.id = m,
                                      !.delayed = delayed]
       ELSE /\ db' = db
            /\ enq' = [IdleEnq EXCEPT !.result = "threw"]
  /\ UNCHANGED <<queue, nextGen, con, rm, bg, mailed, removedOk,
                 sent, contentOut>>

\* the options as they would be if the caller's jobId won over the messageId
AssignJobIdKeepsCallers(optsJobId, messageId) ==
  IF optsJobId # None THEN optsJobId ELSE messageId

\* Object.assign(opts, { jobId: message.messageId }).jobId
AssignJobId(optsJobId, messageId) == messageId

\* the job data enqueue builds: { client: client, messageId: message.messageId }
EnqueueData(client, messageId) == [client |-> client, messageId |-> messageId]

\* enqueue with the rejection of queue.add left uncaught
EnqueueAddRejects(ok) == IF ok THEN "returned" ELSE "threw"

\* .then(job => log.info(..)).catch(e => log.error(e)): enqueue returns
\* whether queue.add resolved or rejected
EnqueueAddEnds(ok) == "returned"

\* enqueue, `await queue.add(.., Object.assign(opts, ..)).then(log).catch(log)`;
\* the caller's options may carry a jobId of their own
EnqueueAdd(F) ==
  /\ enq.pc = "add"
  /\ \E ok \in F, optsJobId \in Ids \cup {None} :
       LET jobId == AssignJobId(optsJobId, enq.id)
       IN  /\ IF ok /\ ~queue[jobId].present
              THEN /\ queue' = QAdd(queue, jobId,
                                    EnqueueData(enq.client, enq.id),
                                    enq.delayed, nextGen)
                   /\ nextGen' = nextGen + 1
              ELSE UNCHANGED <<queue, nextGen>>
           /\ enq' = [IdleEnq EXCEPT !.result = EnqueueAddEnds(ok)]
  /\ UNCHANGED <<db, con, rm, bg, mailed, removedOk, calls,
                 sent, contentOut>>

\* ------------------------------------------------------------ the Queue
\* the Queue's delay timer expires: delayed -> waiting
QueuePromote(id) ==
  /\ queue[id].present
  /\ queue[id].state = "delayed"
  /\ queue' = [queue EXCEPT ![id].state = "waiting"]
  /\ UNCHANGED <<db, nextGen, enq, con, rm, bg, mailed, removedOk, calls,
                 sent, contentOut>>

\* the Queue gives up on an active job (stalled, timed out): active -> failed
QueueStall(id) ==
  /\ queue[id].present
  /\ queue[id].state = "active"
  /\ queue' = [queue EXCEPT ![id].state = "failed"]
  /\ UNCHANGED <<db, nextGen, enq, con, rm, bg, mailed, removedOk, calls,
                 sent, contentOut>>

\* the Queue's retry machinery puts a failed job back in line: failed ->
\* waiting
QueueRetry(id) ==
  /\ queue[id].present
  /\ queue[id].state = "failed"
  /\ calls < MaxCalls
  /\ calls' = calls + 1
  /\ queue' = [queue EXCEPT ![id].state = "waiting"]
  /\ UNCHANGED <<db, nextGen, enq, con, rm, bg, mailed, removedOk,
                 sent, contentOut>>

\* ------------------------------------------------------------ sendMessage
\* sendMessage returns (or throws) to the Queue, which then closes the job
SendMessageEnds(result) ==
  /\ con' = IdleCon
  /\ queue' = QFinish(queue, con.id, con.gen, result)

\* the catch block as it would be if it threw the error on
SendMessageRethrows == SendMessageEnds("threw")

\* log.error in the catch block: the error goes no further
SendMessageCatch == SendMessageEnds("returned")

\* the send result as it would be with the two fields mixed up
SendResultOfSwapped(smtpResult) ==
  [smtpMsgId |-> smtpResult.response, response |-> smtpResult.messageId]

\* { smtpMsgId: smtpResult.messageId, response: smtpResult.response }
SendResultOf(smtpResult) ==
  [smtpMsgId |-> smtpResult.messageId, response |-> smtpResult.response]

\* sendMessage as it would be without its check of the job's ids
ConsumerTakeUnchecked(id) ==
  /\ con.pc = "idle"
  /\ queue[id].present
  /\ queue[id].state = "waiting"
  /\ queue' = [queue EXCEPT ![id].state = "active"]
  /\ con' = [IdleCon EXCEPT !.pc = "read", !.id = id, !.gen = queue[id].gen,
                            !.origin = queue[id].origin,
                            !.data = queue[id].data]
  /\ UNCHANGED <<db, nextGen, enq, rm, bg, mailed, removedOk, calls,
                 sent, contentOut>>

\* the Queue hands a waiting job to the consumer, which calls sendMessage(job);
\* a job without client or messageId makes the call a no-op
ConsumerTake(id) ==
  /\ con.pc = "idle"
  /\ queue[id].present
  /\ queue[id].state = "waiting"
  /\ IF HasIds(queue[id])
     THEN /\ queue' = [queue EXCEPT ![id].state = "active"]
          /\ con' = [IdleCon EXCEPT !.pc = "read", !.id = id,
                                    !.gen = queue[id].gen,
                                    !.origin = queue[id].origin,
                                    !.data = queue[id].data]
     ELSE /\ queue' = [queue EXCEPT ![id].state = "completed"]
          /\ con' = IdleCon
  /\ UNCHANGED <<db, nextGen, enq, rm, bg, mailed, removedOk, calls,
                 sent, contentOut>>

\* const msg = await dataService.readMessage(client, messageId)
SendRead(F) ==
  /\ con.pc = "read"
  /\ \E ok \in F :
       IF ok
       THEN /\ con' = [con EXCEPT !.pc = "send",
                         !.email = DsReadMessage(db, con.data.client,
                                                 con.data.messageId).email]
            /\ queue' = queue
       ELSE SendMessageCatch
  /\ UNCHANGED <<db, nextGen, enq, rm, bg, mailed, removedOk, calls,
                 sent, contentOut>>

\* createEnvelope(message) reads message.bodyType: a message that is null
\* throws before the transporter is called
CreateEnvelopeThrows(message) == message = None

\* const smtpResult = await emailService.send(msg.email)
SendTransport ==
  /\ con.pc = "send"
  /\ IF CreateEnvelopeThrows(con.email)
     THEN /\ SendMessageCatch
          /\ UNCHANGED <<mailed, sent>>
     ELSE /\ mailed' = [mailed EXCEPT ![con.gen] = @ + 1]
          /\ sent' = [sent EXCEPT
                        ![<<con.data.client, con.data.messageId>>] = @ + 1]
          /\ \E r \in SmtpResults \cup {NoSmtp} :
               IF r = NoSmtp
               THEN SendMessageCatch
               ELSE /\ con' = [con EXCEPT !.pc = "write", !.smtp = r]
                    /\ queue' = queue
  /\ UNCHANGED <<db, nextGen, enq, rm, bg, removedOk, calls,
                 contentOut>>

\* await dataService.updateMessageSendResult(client, messageId, sendResult)
SendWrite(F) ==
  /\ con.pc = "write"
  /\ \E ok \in F :
       IF ok
       THEN /\ db' = DsUpdateMessageSendResult(db, con.data.client,
                        con.data.messageId, SendResultOf(con.smtp))
            /\ SendMessageEnds("returned")
       ELSE /\ db' = db
            /\ SendMessageCatch
  /\ UNCHANGED <<nextGen, enq, rm, bg, mailed, removedOk, calls,
                 sent, contentOut>>

\* ----------------------------------------- updateStatus and updateContent
\* the status the Queue-event layer reports for a closed job
StatusOfEvent(state) == IF state = "failed" THEN FAILED ELSE COMPLETED
DescriptionOfEvent(state) == IF state = "failed" THEN "error" ELSE None

\* updateStatus as it would be if the description were not passed on
UpdateStatusWriteDropsDescription(d, job, status, description) ==
  IF HasIds(job)
  THEN DsUpdateStatus(d, job.data.client, job.data.messageId, status, None)
  ELSE d

\* updateStatus(job, status, description)
UpdateStatusWrite(d, job, status, description) ==
  IF HasIds(job)
  THEN DsUpdateStatus(d, job.data.client, job.data.messageId, status,
                      description)
  ELSE d

\* the Queue-event layer calls updateStatus(job, COMPLETED | FAILED, reason)
UpdateStatus(id, F) ==
  /\ queue[id].present
  /\ queue[id].state \in {"completed", "failed"}
  /\ \E ok \in F :
       db' = IF ok
             THEN UpdateStatusWrite(db, queue[id],
                                    StatusOfEvent(queue[id].state),
                                    DescriptionOfEvent(queue[id].state))
             ELSE db
  /\ UNCHANGED <<queue, nextGen, enq, con, rm, bg, mailed, removedOk,
                 calls, sent, contentOut>>

\* updateContent as it would be if the job were scrubbed before the delete
UpdateContentDeleteAfterScrub(d, data, delOk) == d

\* updateContent(job), the Data Store part: deleteMessageEmail when the job
\* has both ids and the call succeeds
UpdateContentDelete(d, data, delOk) ==
  IF data.messageId # None /\ data.client # None /\ delOk
  THEN DsDeleteMessageEmail(d, data.client, data.messageId)
  ELSE d

\* updateContent as it would be if job.update(null) ran whether or not the
\* deletion succeeded
UpdateContentScrubsAlways(data, delOk) == data # NoData

\* updateContent(job), whether `await job.update(null)` is reached: job.data
\* is not null and deleteMessageEmail did not throw
UpdateContentScrubs(data, delOk) ==
  /\ data # NoData
  /\ (data.messageId # None /\ data.client # None) => delOk

\* updateContent as it would be without its try and catch
UpdateContentThrows(data, delOk, updOk) ==
  IF data = NoData THEN "returned"
  ELSE IF data.messageId # None /\ data.client # None /\ ~delOk THEN "threw"
  ELSE IF ~updOk THEN "threw"
  ELSE "returned"

\* try { .. } catch (e) { log.error(..) }: updateContent returns whether
\* deleteMessageEmail and job.update resolved or rejected
UpdateContentEnds(data, delOk, updOk) == "returned"

\* the Queue-event layer calls updateContent(job) on a closed job
UpdateContent(id, F) ==
  /\ queue[id].present
  /\ queue[id].state \in {"completed", "failed"}
  /\ \E delOk \in F, updOk \in F :
       /\ db' = UpdateContentDelete(db, queue[id].data, delOk)
       /\ queue' = IF UpdateContentScrubs(queue[id].data, delOk) /\ updOk
                   THEN QUpdate(queue, id, queue[id].gen, NoData)
                   ELSE queue
       /\ contentOut' = UpdateContentEnds(queue[id].data, delOk, updOk)
  /\ UNCHANGED <<nextGen, enq, con, rm, bg, mailed, removedOk, calls,
                 sent>>

\* -------------------------------------------------------------- removeJob
\* removeJob as it would be with the ownership check left out
RemoveChecksNoOwner(job, client, jobId) ==
  IF HasIds(job)
  THEN IF job.data.messageId # jobId THEN "DataIntegrityError"
       ELSE "getState"
  ELSE "false"

\* removeJob as it would be with ownership checked before integrity
RemoveChecksOwnerFirst(job, client, jobId) ==
  IF HasIds(job)
  THEN IF job.data.client # client THEN "ClientMismatchError"
       ELSE IF job.data.messageId # jobId THEN "DataIntegrityError"
       ELSE "getState"
  ELSE "false"

\* removeJob as it would be if a missing job were an error
RemoveChecksThrowsOnMissing(job, client, jobId) ==
  IF HasIds(job)
  THEN IF job.data.messageId # jobId THEN "DataIntegrityError"
       ELSE IF job.data.client # client THEN "ClientMismatchError"
       ELSE "getState"
  ELSE "UncancellableError"

\* removeJob as it would be with the job's state checked before its owner
RemoveChecksStateFirst(job, client, jobId) ==
  IF HasIds(job)
  THEN IF job.data.messageId # jobId THEN "DataIntegrityError"
       ELSE IF job.state # "delayed" THEN "UncancellableError"
       ELSE IF job.data.client # client THEN "ClientMismatchError"
       ELSE "getState"
  ELSE "false"

\* removeJob as it would be if only the job's presence were checked, not its
\* client and messageId
RemoveChecksNoStructure(job, client, jobId) ==
  IF job.present
  THEN IF job.data.messageId # jobId THEN "DataIntegrityError"
       ELSE IF job.data.client # client THEN "ClientMismatchError"
       ELSE "getState"
  ELSE "false"

\* removeJob's checks on the job getJob returned, up to the first await
RemoveChecks(job, client, jobId) ==
  IF HasIds(job)
  THEN IF job.data.messageId # jobId THEN "DataIntegrityError"
       ELSE IF job.data.client # client THEN "ClientMismatchError"
       ELSE "getState"
  ELSE "false"

\* the state check as it would be if waiting jobs were cancellable too
StateCheckAllowsWaiting(state) ==
  IF state \notin {"delayed", "waiting"} THEN "UncancellableError"
  ELSE "remove"

\* await job.getState() !== 'delayed'
StateCheck(state) ==
  IF state # "delayed" THEN "UncancellableError" ELSE "remove"

\* the two calls removeJob does not await
BgWrites(client, data, jobId, gen, wasDelayed) ==
  { [kind |-> "status", client |-> client, messageId |-> data.messageId,
     data |-> data, jobId |-> jobId, gen |-> gen, wasDelayed |-> wasDelayed],
    [kind |-> "content", client |-> client, messageId |-> data.messageId,
     data |-> data, jobId |-> jobId, gen |-> gen, wasDelayed |-> wasDelayed] }

\* removeJob, from `await queue.getJob(jobId)` to its first throw, return or
\* the call of job.getState()
RemoveJobGet(client, jobId) ==
  /\ rm.pc = "idle"
  /\ calls < MaxCalls
  /\ calls' = calls + 1
  /\ LET job == QGetJob(queue, jobId)
         out == RemoveChecks(job, client, jobId)
     IN  rm' = IF out = "getState"
               THEN [pc |-> "getState", client |-> client, jobId |-> jobId,
                     data |-> job.data, gen |-> job.gen, result |-> None,
                     queried |-> FALSE]
               ELSE [IdleRm EXCEPT !.result = out, !.client = client,
                                   !.jobId = jobId]
  /\ UNCHANGED <<db, queue, nextGen, enq, con, bg, mailed, removedOk,
                 sent, contentOut>>

\* removeJob, `await job.getState()` answers
RemoveJobState ==
  /\ rm.pc = "getState"
  /\ LET out == StateCheck(QGetState(queue, rm.jobId, rm.gen))
     IN  rm' = IF out = "remove"
               THEN [rm EXCEPT !.pc = "remove", !.queried = TRUE]
               ELSE [IdleRm EXCEPT !.result = out, !.client = rm.client,
                                   !.queried = TRUE]
  /\ UNCHANGED <<db, queue, nextGen, enq, con, bg, mailed, removedOk,
                 calls, sent, contentOut>>

\* removeJob, `await job.remove()` answers; the two writes are started and
\* true is returned
RemoveJobRemove ==
  /\ rm.pc = "remove"
  /\ queue' = QRemove(queue, rm.jobId, rm.gen)
  /\ bg' = bg \cup BgWrites(rm.client, rm.data, rm.jobId, rm.gen,
                            QGetState(queue, rm.jobId, rm.gen) = "delayed")
  /\ removedOk' = removedOk \cup {rm.gen}
  /\ rm' = [IdleRm EXCEPT !.result = "true", !.client = rm.client,
                          !.queried = TRUE]
  /\ UNCHANGED <<db, nextGen, enq, con, mailed, calls,
                 sent, contentOut>>

\* dataService.updateStatus(client, messageId, REMOVED) completes
BgStatus(t, F) ==
  /\ t \in bg
  /\ t.kind = "status"
  /\ \E ok \in F :
       db' = IF ok THEN DsUpdateStatus(db, t.client, t.messageId, REMOVED, None)
             ELSE db
  /\ bg' = bg \ {t}
  /\ UNCHANGED <<queue, nextGen, enq, con, rm, mailed, removedOk, calls,
                 sent, contentOut>>

\* this.updateContent(job) completes
BgContent(t, F) ==
  /\ t \in bg
  /\ t.kind = "content"
  /\ \E delOk \in F, updOk \in F :
       /\ db' = UpdateContentDelete(db, t.data, delOk)
       /\ queue' = IF UpdateContentScrubs(t.data, delOk) /\ updOk
                   THEN QUpdate(queue, t.jobId, t.gen, NoData)
                   ELSE queue
       /\ contentOut' = UpdateContentEnds(t.data, delOk, updOk)
  /\ bg' = bg \ {t}
  /\ UNCHANGED <<nextGen, enq, con, rm, mailed, removedOk, calls,
                 sent>>

\* every step but those of removeJob's un-awaited writes
Foreground ==
  \/ \E c \in Producers, m \in EnqIds, d \in BOOLEAN :
       EnqueueWrite(c, m, d, Outcomes)
  \/ EnqueueAdd(Outcomes)
  \/ \E id \in Ids : QueuePromote(id)
  \/ \E id \in Ids : QueueStall(id)
  \/ \E id \in Ids : QueueRetry(id)
  \/ \E id \in Ids : ConsumerTake(id)
  \/ SendRead(Outcomes)
  \/ SendTransport
  \/ SendWrite(Outcomes)
  \/ \E id \in Ids : UpdateStatus(id, Outcomes)
  \/ \E id \in Ids : UpdateContent(id, Outcomes)
  \/ \E c \in Clients, id \in Ids : RemoveJobGet(c, id)
  \/ RemoveJobState
  \/ RemoveJobRemove

Next ==
  \/ Foreground
  \/ \E t \in bg : BgStatus(t, Outcomes)
  \/ \E t \in bg : BgContent(t, Outcomes)

Spec == Init /\ [][Next]_vars

\* The same program when the Data Store accepts removeJob's un-awaited
\* writes.  The event loop runs every pending continuation once the call it
\* awaits has settled, so each of the two writes is eventually completed,
\* and so is every call of enqueue, sendMessage and removeJob that has
\* started; when the Queue promotes or hands out a job, and when a caller
\* calls, is up to them.
BgStatusRuns == \E t \in bg : BgStatus(t, NoFault)
BgContentRuns == \E t \in bg : BgContent(t, NoFault)

LiveNext ==
  \/ Foreground
  \/ BgStatusRuns
  \/ BgContentRuns

LiveSpec ==
  /\ Init /\ [][LiveNext]_vars
  /\ WF_vars(BgStatusRuns) /\ WF_vars(BgContentRuns)
  /\ WF_vars(EnqueueAdd(Outcomes))
  /\ WF_vars(SendRead(Outcomes)) /\ WF_vars(SendTransport)
  /\ WF_vars(SendWrite(Outcomes))
  /\ WF_vars(RemoveJobState) /\ WF_vars(RemoveJobRemove)

\* ======================================================== removeJob claims
\* what a removeJob step must leave alone when it removes nothing
RemoveLeavesAll == queue' = queue /\ db' = db /\ bg' = bg /\ removedOk' = removedOk

\* C1: removeJob(clientB, jobId) on a job owned by another client (its
\* messageId matching its id), in whatever queue state, signals
\* ClientMismatchError and leaves the Queue, the Data Store and the set of
\* background writes as they were.
C1_ClientMismatch ==
  [][\A c \in Clients, id \in Ids :
       (/\ RemoveJobGet(c, id)
        /\ HasIds(queue[id])
        /\ queue[id].data.messageId = id
        /\ queue[id].data.client # c)
       => (/\ rm'.pc = "idle"
           /\ rm'.result = "ClientMismatchError"
           /\ RemoveLeavesAll)]_vars

\* a non-owner got ClientMismatchError for a job that is not delayed, and
\* the job is still there
C1_Witness ==
  /\ rm.result = "ClientMismatchError"
  /\ \E id \in Ids :
       /\ HasIds(queue[id])
       /\ queue[id].data.messageId = id
       /\ queue[id].data.client # rm.client
       /\ queue[id].state = "active"

\* C2: a job for which removeJob returned true is never handed to the Mail
\* Transport, before or after the removal.
C2_RemovedNeverMailed == \A g \in removedOk : mailed[g] = 0

\* C3: when the state query answers anything but delayed, removeJob signals
\* UncancellableError and the Data Store, the Queue and the background
\* writes are as before.
C3_Uncancellable ==
  [][(/\ RemoveJobState
      /\ QGetState(queue, rm.jobId, rm.gen) # "delayed")
     => (/\ rm'.pc = "idle"
         /\ rm'.result = "UncancellableError"
         /\ RemoveLeavesAll)]_vars

\* the owner got UncancellableError for a job the consumer is sending
C3_Witness ==
  /\ rm.result = "UncancellableError"
  /\ \E id \in Ids :
       /\ HasIds(queue[id])
       /\ queue[id].data.client = rm.client
       /\ queue[id].state = "active"
       /\ con.pc = "write"

\* C4: a job whose data.messageId is not the id it was looked up by makes
\* removeJob signal DataIntegrityError, whoever calls and whatever the
\* job's state; the state is not queried and nothing is removed or written.
C4_DataIntegrity ==
  [][\A c \in Clients, id \in Ids :
       (/\ RemoveJobGet(c, id)
        /\ HasIds(queue[id])
        /\ queue[id].data.messageId # id)
       => (/\ rm'.pc = "idle"
           /\ rm'.result = "DataIntegrityError"
           /\ ~rm'.queried
           /\ RemoveLeavesAll)]_vars

\* a caller who does not own the job got DataIntegrityError for a job that
\* is not delayed
C4_Witness ==
  /\ rm.result = "DataIntegrityError"
  /\ ~rm.queried
  /\ \E id \in Ids :
       /\ HasIds(queue[id])
       /\ queue[id].data.messageId # id
       /\ queue[id].data.client # rm.client
       /\ queue[id].state # "delayed"

\* C6: removeJob on an id the Queue holds no job for returns false, signals
\* no error and changes neither the Queue nor the Data Store.
C6_NotFound ==
  [][\A c \in Clients, id \in Ids :
       (RemoveJobGet(c, id) /\ ~queue[id].present)
       => (/\ rm'.pc = "idle"
           /\ rm'.result = "false"
           /\ ~rm'.queried
           /\ RemoveLeavesAll)]_vars

\* removeJob returned false while the Queue holds no job at all and a
\* message's record already says ENQUEUED
C6_Witness ==
  /\ rm.result = "false"
  /\ \A id \in Ids : ~queue[id].present
  /\ \E k \in Keys : db[k].status = ENQUEUED

\* removeJob has just removed a delayed job of (c, m): both of its
\* un-awaited writes are still to run
RemovalPending(c, m) ==
  \E t \in bg, u \in bg :
    /\ t.kind = "status" /\ u.kind = "content" /\ u.gen = t.gen
    /\ t.client = c /\ t.messageId = m /\ t.wasDelayed

EnqueuedJob(job) == HasIds(job) /\ job.origin = "enqueue"

\* C7: a job that enqueue made visible in the Queue, or that the consumer
\* is processing, has a Data Store record whose status has been written; a
\* submitted message's record leaves "no status" only to ENQUEUED; and an
\* enqueue whose ENQUEUED write fails ends there and adds no job.
C7_WriteBeforePublish ==
  /\ [](\A id \in Ids :
          EnqueuedJob(queue[id]) =>
            db[<<queue[id].data.client, queue[id].data.messageId>>].status
              # None)
  /\ []((con.pc # "idle" /\ con.origin = "enqueue") =>
          db[<<con.data.client, con.data.messageId>>].status # None)
  /\ [][\A c \in Clients, m \in EnqIds :
          db[<<c, m>>].status = None =>
            db'[<<c, m>>].status \in {None, ENQUEUED}]_vars
  /\ [][((\E c \in Clients, m \in EnqIds, d \in BOOLEAN :
             EnqueueWrite(c, m, d, Outcomes)) /\ enq'.pc = "idle")
          => (queue' = queue /\ db' = db)]_vars

\* a job is in the Queue, made by an enqueue whose caller's record says
\* ENQUEUED, while the other client's record of that id has no status
C7_Witness ==
  \E id \in Ids :
    /\ EnqueuedJob(queue[id])
    /\ db[<<queue[id].data.client, id>>].status = ENQUEUED
    /\ \E c \in Clients : db[<<c, id>>].status = None

\* ====================================================== sendMessage claims
\* C8: when the write of the send result succeeds, the record of the job's
\* (client, messageId) has status COMPLETED and sendResult made of the
\* Mail Transport's messageId and response.
C8_SendResult ==
  [][SendWrite(NoFault) =>
       LET k == <<con.data.client, con.data.messageId>>
       IN  /\ db'[k].status = COMPLETED
           /\ db'[k].sendResult = [smtpMsgId |-> con.smtp.messageId,
                                   response |-> con.smtp.response]]_vars

\* a submitted message is COMPLETED with the transport's answer stored
C8_Witness ==
  \E c \in Clients, m \in EnqIds :
    /\ db[<<c, m>>].status = COMPLETED
    /\ db[<<c, m>>].sendResult = [smtpMsgId |-> "abc", response |-> "250 OK"]
    /\ \E g \in Gens : mailed[g] = 1

\* C9: a sendMessage that ends without a successful send-result write (the
\* read, the transport or the write failed) leaves the Data Store as it
\* was, as do its read and transport steps, and the Queue closes the job as
\* completed: no error reached it.
C9_SendFailureAbsorbed ==
  /\ [][(con.pc # "idle" /\ con' # con /\ ~SendWrite(NoFault)) => db' = db]_vars
  /\ [][(/\ con.pc # "idle"
         /\ con'.pc = "idle"
         /\ QGetState(queue, con.id, con.gen) = "active")
        => queue'[con.id].state = "completed"]_vars

\* the transport was invoked and failed: the job is closed as completed and
\* the record still says ENQUEUED, with no send result
C9_Witness ==
  \E id \in EnqIds :
    /\ EnqueuedJob(queue[id])
    /\ queue[id].state = "completed"
    /\ mailed[queue[id].gen] = 1
    /\ con.pc = "idle"
    /\ db[<<queue[id].data.client, id>>].status = ENQUEUED
    /\ db[<<queue[id].data.client, id>>].sendResult = NoResult

\* C10: a submitted message's sendResult is non-null exactly when its
\* status is COMPLETED.
C10_SendResultIffCompleted ==
  \A c \in Clients, m \in EnqIds :
    (db[<<c, m>>].sendResult # NoResult) <=> (db[<<c, m>>].status = COMPLETED)

\* ==================================================== state machine claims
Terminal == {COMPLETED, FAILED, REMOVED}

\* C11: once a submitted message's status is COMPLETED, FAILED or REMOVED,
\* no later step of enqueue, sendMessage, updateStatus or removeJob's
\* background write changes that status.
C11_TerminalStatusKept ==
  [][\A c \in Clients, m \in EnqIds :
       db[<<c, m>>].status \in Terminal =>
         db'[<<c, m>>].status = db[<<c, m>>].status]_vars

\* ==================================================== updateContent claims
\* C12: updateContent never throws, whether deleteMessageEmail or job.update
\* fails or not; a body that is deleted stays deleted; a call on a job whose
\* payload is already cleared changes nothing; and a call on a job with both
\* ids whose two writes succeed deletes the body and clears the payload.
C12_UpdateContentIdempotent ==
  /\ [](contentOut # "threw")
  /\ [][\A id \in Ids :
          UpdateContent(id, Outcomes) =>
            /\ contentOut' = "returned"
            /\ \A k \in Keys : db[k].email = None => db'[k].email = None
            /\ queue[id].data = NoData => (db' = db /\ queue' = queue)]_vars
  /\ [][\A id \in Ids :
          (UpdateContent(id, NoFault) /\ HasIds(queue[id])) =>
            /\ db'[<<queue[id].data.client,
                     queue[id].data.messageId>>].email = None
            /\ queue'[id].data = NoData]_vars

\* updateContent has run on a closed job and returned, its deletion having
\* failed: the job keeps its ids and the body is still stored
C12_Witness ==
  /\ contentOut = "returned"
  /\ removedOk = {}
  /\ \E id \in Ids :
       /\ EnqueuedJob(queue[id])
       /\ queue[id].state \in {"completed", "failed"}
       /\ db[<<queue[id].data.client, queue[id].data.messageId>>].email
            = "hello"

\* ======================================================== send-once claims
\* C13: as long as the Queue has handed no job to the Mail Transport twice
\* (no job was delivered again after a failure), the body of a submitted
\* message goes to the Mail Transport at most once, whether the send-result
\* write fails or enqueue is called again with the same messageId.
C13_NoDoubleSend ==
  (\A g \in Gens : mailed[g] <= 1) =>
    \A c \in Clients, m \in EnqIds : sent[<<c, m>>] <= 1

\* ================================================== enqueue claims, again
\* C14: when queue.add fails inside enqueue, enqueue returns without an
\* error and the step changes neither the Data Store (the ENQUEUED status
\* is not rolled back) nor the Queue (no job is added); so after a first
\* enqueue whose submission failed the record says ENQUEUED and the Queue
\* holds no job.
C14_AddFailureAbsorbed ==
  /\ [][EnqueueAdd(Fault) =>
          /\ enq'.pc = "idle"
          /\ enq'.result = "returned"
          /\ db' = db
          /\ queue' = queue]_vars
  /\ []((enq.result = "returned" /\ calls = 1 /\ nextGen = 1) =>
          /\ \A id \in Ids : ~queue[id].present
          /\ \E c \in Producers, m \in EnqIds :
               db[<<c, m>>].status = ENQUEUED)

\* the only enqueue so far has returned, its submission having failed: the
\* record says ENQUEUED and the Queue has never held a job
C14_Witness ==
  /\ enq.result = "returned"
  /\ nextGen = 1
  /\ \A id \in Ids : ~queue[id].present
  /\ \E c \in Producers, m \in EnqIds : db[<<c, m>>].status = ENQUEUED

\* C15: the ENQUEUED write is done before enqueue adds the job, and the
\* rest of enqueue leaves the Data Store alone; so when the first enqueue
\* has returned and neither the consumer nor a removeJob has acted on its
\* job, the record of (client, messageId) says ENQUEUED.
C15_EnqueuedOnReturn ==
  /\ [][\A c \in Producers, m \in EnqIds, d \in BOOLEAN :
          (EnqueueWrite(c, m, d, Outcomes) /\ enq'.pc = "add") =>
            db'[<<c, m>>].status = ENQUEUED]_vars
  /\ [][EnqueueAdd(Outcomes) =>
          (enq'.result = "returned" /\ db' = db)]_vars
  /\ []((/\ enq.result = "returned"
         /\ calls = 1
         /\ \A id \in Ids :
              queue[id].origin = "enqueue" =>
                queue[id].state \in {"delayed", "waiting"})
        => \A c \in Producers, m \in EnqIds :
             db[<<c, m>>].status = ENQUEUED)

\* the first enqueue has returned and its job waits in the Queue, untouched
\* by the consumer: the record says ENQUEUED
C15_Witness ==
  /\ enq.result = "returned"
  /\ calls = 1
  /\ con.pc = "idle"
  /\ \E id \in EnqIds :
       /\ EnqueuedJob(queue[id])
       /\ queue[id].state = "waiting"
       /\ db[<<queue[id].data.client, id>>].status = ENQUEUED

\* ================================================= removeJob claims, again
\* C16: removeJob on a job that is not delayed and is owned by another
\* client (its messageId matching its id) signals ClientMismatchError, not
\* UncancellableError, and ends without querying the job's state.
C16_OwnerBeforeState ==
  [][\A c \in Clients, id \in Ids :
       (/\ RemoveJobGet(c, id)
        /\ HasIds(queue[id])
        /\ queue[id].data.messageId = id
        /\ queue[id].data.client # c
        /\ queue[id].state # "delayed")
       => (/\ rm'.pc = "idle"
           /\ rm'.result = "ClientMismatchError"
           /\ ~rm'.queried)]_vars

\* a non-owner got ClientMismatchError, without a state query, for a job
\* the Queue has closed as completed
C16_Witness ==
  /\ rm.result = "ClientMismatchError"
  /\ ~rm.queried
  /\ \E id \in Ids :
       /\ HasIds(queue[id])
       /\ queue[id].data.messageId = id
       /\ queue[id].data.client # rm.client
       /\ queue[id].state = "completed"

\* C17: a job enqueue adds is stored under the message's messageId, whatever
\* jobId the caller's options carry, and its data is exactly the client and
\* the messageId (no body); so a job made by enqueue, while its payload is
\* not cleared, has data.messageId equal to its id, and removeJob on a job
\* made by enqueue never signals DataIntegrityError.
C17_JobIdIsMessageId ==
  /\ [][(EnqueueAdd(Outcomes) /\ queue' # queue) =>
          /\ queue'[enq.id].present /\ ~queue[enq.id].present
          /\ queue'[enq.id].data = [client |-> enq.client,
                                    messageId |-> enq.id]
          /\ \A i \in Ids \ {enq.id} : queue'[i] = queue[i]]_vars
  /\ [](\A id \in Ids :
          (queue[id].origin = "enqueue" /\ queue[id].data # NoData) =>
            /\ DOMAIN queue[id].data = {"client", "messageId"}
            /\ queue[id].data.messageId = id
            /\ queue[id].data.client \in Producers)
  /\ [][\A c \in Clients, id \in Ids :
          (RemoveJobGet(c, id) /\ queue[id].origin = "enqueue") =>
            rm'.result # "DataIntegrityError"]_vars

\* removeJob, called with the messageId of a job enqueue made, has passed
\* the integrity check and is querying the job's state
C17_Witness ==
  /\ rm.pc = "getState"
  /\ EnqueuedJob(queue[rm.jobId])
  /\ queue[rm.jobId].gen = rm.gen
  /\ queue[rm.jobId].data = [client |-> rm.client, messageId |-> rm.jobId]

\* ================================================ sendMessage claims, again
\* C18: sendMessage on a job whose payload updateContent has cleared ends at
\* once: no Data Store read, no Mail Transport call, nothing written; the
\* read and transport steps only ever run for a job that had both ids when
\* it was taken; and unless a sendMessage was already in flight for it, a
\* scrubbed job in the Queue is never transmitted again.
C18_ScrubbedJobNotSent ==
  /\ [][\A id \in Ids :
          (ConsumerTake(id) /\ queue[id].data = NoData) =>
            /\ con'.pc = "idle"
            /\ db' = db /\ mailed' = mailed /\ sent' = sent]_vars
  /\ [](con.pc # "idle" =>
          (con.data.client # None /\ con.data.messageId # None))
  /\ [][\A id \in Ids :
          (/\ queue[id].present
           /\ queue[id].data = NoData
           /\ ~(con.pc # "idle" /\ con.gen = queue[id].gen))
          => mailed'[queue[id].gen] = mailed[queue[id].gen]]_vars

\* a job failed, FAILED was recorded and its payload cleared; the Queue
\* put it back in line and its sendMessage ended with the body never
\* handed to the Mail Transport
C18_Witness ==
  \E id \in EnqIds :
    /\ queue[id].origin = "enqueue"
    /\ queue[id].data = NoData
    /\ queue[id].state = "completed"
    /\ con.pc = "idle"
    /\ mailed[queue[id].gen] = 0
    /\ \E c \in Producers :
         /\ db[<<c, id>>].status = FAILED
         /\ db[<<c, id>>].email = None
         /\ sent[<<c, id>>] = 0

\* ===================================================== updateStatus claims
\* C19: updateStatus on a job with both ids writes the given status and
\* description to the record of the job's (client, messageId) and changes
\* nothing else; on a job without them it writes nothing, so an update that
\* comes after updateContent cleared the payload is lost; and a record
\* turns FAILED only by an updateStatus on a failed job that still has its
\* ids.
C19_UpdateStatusWrites ==
  /\ [][\A id \in Ids :
          (UpdateStatus(id, NoFault) /\ HasIds(queue[id])) =>
            LET k == <<queue[id].data.client, queue[id].data.messageId>>
            IN  /\ db'[k].status = StatusOfEvent(queue[id].state)
                /\ db'[k].statusDescription =
                     DescriptionOfEvent(queue[id].state)
                /\ db'[k].email = db[k].email
                /\ db'[k].sendResult = db[k].sendResult
                /\ \A j \in Keys \ {k} : db'[j] = db[j]]_vars
  /\ [][\A id \in Ids :
          (UpdateStatus(id, Outcomes) /\ ~HasIds(queue[id])) => db' = db]_vars
  /\ [][\A k \in Keys :
          (db[k].status # FAILED /\ db'[k].status = FAILED) =>
            \E id \in Ids :
              /\ HasIds(queue[id])
              /\ queue[id].state = "failed"
              /\ k = <<queue[id].data.client, queue[id].data.messageId>>]_vars

\* a job failed and its payload was cleared before any status update: the
\* record still says ENQUEUED and FAILED can no longer be recorded
C19_Witness ==
  \E id \in EnqIds, c \in Producers :
    /\ queue[id].origin = "enqueue"
    /\ queue[id].state = "failed"
    /\ queue[id].data = NoData
    /\ db[<<c, id>>].status = ENQUEUED
    /\ db[<<c, id>>].email = None
    /\ calls = 1

\* C20: a step that clears the payload of a job with both ids leaves the
\* body of the job's message deleted; an updateContent whose deletion
\* failed leaves the payload as it was, so a later call can delete again;
\* and in every state a job made by enqueue whose payload is cleared has its
\* message's body deleted.
C20_ClearedImpliesDeleted ==
  /\ [][\A id \in Ids :
          (HasIds(queue[id]) /\ queue'[id].present /\ queue'[id].data = NoData)
          => db'[<<queue[id].data.client,
                   queue[id].data.messageId>>].email = None]_vars
  /\ [][\A id \in Ids :
          (/\ UpdateContent(id, Outcomes)
           /\ HasIds(queue[id])
           /\ db'[<<queue[id].data.client,
                    queue[id].data.messageId>>].email # None)
          => queue'[id] = queue[id]]_vars
  /\ [](\A id \in Ids :
          (queue[id].origin = "enqueue" /\ queue[id].data = NoData) =>
            \A c \in Producers : db[<<c, id>>].email = None)

\* a message was sent and recorded COMPLETED, and updateContent then
\* deleted its body and cleared the payload of its job
C20_Witness ==
  \E id \in EnqIds, c \in Producers :
    /\ queue[id].origin = "enqueue"
    /\ queue[id].state = "completed"
    /\ queue[id].data = NoData
    /\ contentOut = "returned"
    /\ db[<<c, id>>].email = None
    /\ db[<<c, id>>].status = COMPLETED
    /\ db[<<c, id>>].sendResult # NoResult

\* C21: removeJob on a job the Queue holds but whose data lacks the client
\* or the messageId (a job updateContent has scrubbed, for one) returns
\* false as it does for a missing job: no error is signalled, the job's
\* state is not queried, the job is not removed and nothing is written to
\* the Data Store or started in the background.
C21_NoIdsReturnsFalse ==
  [][\A c \in Clients, id \in Ids :
       (/\ RemoveJobGet(c, id)
        /\ queue[id].present
        /\ (queue[id].data.client = None \/ queue[id].data.messageId = None))
       => (/\ rm'.pc = "idle"
           /\ rm'.result = "false"
           /\ ~rm'.queried
           /\ queue'[id] = queue[id]
           /\ RemoveLeavesAll)]_vars

\* removeJob returned false for the id of a delayed job that carries its
\* messageId but no client, and the job is still in the Queue
C21_Witness ==
  /\ rm.result = "false"
  /\ ~rm.queried
  /\ rm.jobId \in Ids
  /\ queue[rm.jobId].present
  /\ queue[rm.jobId].state = "delayed"
  /\ queue[rm.jobId].data = [client |-> None, messageId |-> rm.jobId]
====
